---- MODULE Spec2Model ----
(***************************************************************************)
(* app-transcribe: the acquisition pipeline (POST /api/download), the      *)
(* delete endpoint (DELETE /api/videos), the transcoder (compressVideo),   *)
(* the blob store and the metadata store they share.                       *)
(*                                                                         *)
(* Every request handler is split at its awaits: what lies between two     *)
(* awaits is one atomic step, and requests interleave at the awaits.       *)
(* Strings that the code takes apart (URLs, file names) are sequences:     *)
(* a URL is a sequence of tokens, a file name a sequence of characters.    *)
(***************************************************************************)
EXTENDS Integers, Sequences, FiniteSets, TLC

(***************************************************************************)
(* Bounds of the model.                                                    *)
(***************************************************************************)
\* Date.now() takes the values 0..MaxClock.
MaxClock == 1
\* Math.random().toString(36).substring(2, 15) takes NumRand values.
NumRand == 2
\* Media bodies (fetched, encoded) are 1..MaxLen bytes long.
MaxLen == 2

\* The requests in flight: two submit requests, two delete requests.
PostIds == {"p1", "p2"}
DeleteIds == {"d1", "d2"}

(***************************************************************************)
(* Values.                                                                 *)
(***************************************************************************)
\* Fetched bytes are 0s, bytes written by the encoder are 1s.
RawBodies == {[i \in 1..n |-> 0] : n \in 1..MaxLen}
EncodedBodies == {[i \in 1..n |-> 1] : n \in 1..MaxLen}
ContentTypes == {"video/mp4", "video/webm"}
\* What downloadFromUrl may return.
Media == [body : RawBodies, contentType : ContentTypes]

\* File names, character by character.
FnClip == <<"M", "y", "_", "V", "-", "C", ".", "m", "p", "4">>
FnWebm == <<"a", ".", "w", "e", "b", "m">>
FnNoExt == <<"c", "l", "i", "p">>
Filenames == {FnClip, FnWebm, FnNoExt}
ExtMp4 == <<".", "m", "p", "4">>
FnVideoMp4 == <<"v", "i", "d", "e", "o", ".", "m", "p", "4">>

\* URLs, token by token. The empty URL is a body without url.
UrlMissing == <<>>
UrlOther == <<"https://", "example.org", "/v">>
UrlYouTube == <<"https://", "www.", "youtube.com", "/watch?v=abc">>
UrlTikTok == <<"https://", "vm.", "tiktok.com", "/ZM1">>
Urls == {UrlMissing, UrlOther, UrlYouTube, UrlTikTok}

(***************************************************************************)
(* lib/cobalt.ts: the pure helpers.                                        *)
(***************************************************************************)
\* A pattern is the set of host fragments its regular expression accepts;
\* the order is the order of the array.
SUPPORTED_PLATFORMS ==
    << [name |-> "YouTube",   pattern |-> {"youtube.com", "youtu.be"}],
       [name |-> "TikTok",    pattern |-> {"tiktok.com"}],
       [name |-> "Instagram", pattern |-> {"instagram.com"}],
       [name |-> "LinkedIn",  pattern |-> {"linkedin.com"}],
       [name |-> "Twitter/X", pattern |-> {"twitter.com", "x.com"}],
       [name |-> "Vimeo",     pattern |-> {"vimeo.com"}] >>

\* detectPlatform's null.
NullPlatform == "null"

\* pattern.test(url): the pattern occurs somewhere in the URL.
PatternTest(pattern, url) == \E i \in 1..Len(url) : url[i] \in pattern

\* The first platform, in array order, whose pattern matches; null if none.
detectPlatform(url) ==
    LET hits == {i \in 1..Len(SUPPORTED_PLATFORMS) :
                    PatternTest(SUPPORTED_PLATFORMS[i].pattern, url)}
    IN  IF hits = {} THEN NullPlatform
        ELSE SUPPORTED_PLATFORMS[CHOOSE i \in hits : \A j \in hits : i <= j].name

\* A validation that accepts every URL.
isUrlSupportedAny(url) == TRUE

isUrlSupported(url) == detectPlatform(url) # NullPlatform

\* Where /\.[^/.]+$/ matches in s: at the last ".", if at least one character
\* follows it and no "/" does; 0 when the expression does not match.
ExtMatch(s) ==
    LET dots == {i \in 1..Len(s) : s[i] = "."}
    IN  IF dots = {} THEN 0
        ELSE LET d == CHOOSE i \in dots : \A j \in dots : j <= i
             IN  IF d < Len(s) /\ \A k \in (d + 1)..Len(s) : s[k] # "/"
                 THEN d ELSE 0

\* s.replace(/\.[^/.]+$/, r)
ReplaceExt(s, r) ==
    IF ExtMatch(s) = 0 THEN s ELSE SubSeq(s, 1, ExtMatch(s) - 1) \o r

\* c.toUpperCase(), on the characters of the model's file names.
ToUpper(c) ==
    CASE c = "a" -> "A" [] c = "c" -> "C" [] c = "m" -> "M" [] c = "v" -> "V"
      [] OTHER -> c

\* c.toLowerCase(), on the characters of the model's file names.
ToLower(c) ==
    CASE c = "M" -> "m" [] c = "V" -> "v" [] c = "C" -> "c" [] OTHER -> c

\* A title in sentence case: the first character upper, the others lower.
extractTitleSentenceCase(filename) ==
    LET withoutExt == ReplaceExt(filename, <<>>)
        cleaned == [i \in 1..Len(withoutExt) |->
                      IF withoutExt[i] \in {"_", "-"} THEN " " ELSE ToLower(withoutExt[i])]
    IN  IF Len(cleaned) = 0 THEN cleaned
        ELSE <<ToUpper(cleaned[1])>> \o SubSeq(cleaned, 2, Len(cleaned))

\* extractTitleFromFilename
extractTitleFromFilename(filename) ==
    LET withoutExt == ReplaceExt(filename, <<>>)
        cleaned == [i \in 1..Len(withoutExt) |->
                      IF withoutExt[i] \in {"_", "-"} THEN " " ELSE withoutExt[i]]
    IN  IF Len(cleaned) = 0 THEN cleaned
        ELSE <<ToUpper(cleaned[1])>> \o SubSeq(cleaned, 2, Len(cleaned))

(***************************************************************************)
(* lib/storage.ts: generateFileKey.                                        *)
(***************************************************************************)
\* originalFileName.split(".").pop(): what follows the last ".", the whole
\* name when it has none.
LastSegment(s) ==
    LET dots == {i \in 1..Len(s) : s[i] = "."}
    IN  IF dots = {} THEN s
        ELSE SubSeq(s, (CHOOSE i \in dots : \A j \in dots : j <= i) + 1, Len(s))

\* The values of Math.random().toString(36).substring(2, 15).
RandomStrings == 1..NumRand

\* `videos/${timestamp}-${randomString}.${extension}`
generateFileKey(originalFileName, timestamp, randomString) ==
    [ts |-> timestamp, rand |-> randomString, ext |-> LastSegment(originalFileName)]

\* No key yet.
NoKey == [ts |-> -1, rand |-> 0, ext |-> <<>>]

(***************************************************************************)
(* lib/compress.ts: getExtensionFromMimeType.                              *)
(***************************************************************************)
getExtensionFromMimeType(mimeType) ==
    CASE mimeType = "video/mp4" -> "mp4"
      [] mimeType = "video/webm" -> "webm"
      [] mimeType = "video/quicktime" -> "mov"
      [] mimeType = "video/x-msvideo" -> "avi"
      [] mimeType = "video/x-matroska" -> "mkv"
      [] mimeType = "video/mpeg" -> "mpeg"
      [] mimeType = "video/3gpp" -> "3gp"
      [] OTHER -> "mp4"

(***************************************************************************)
(* The state.                                                              *)
(***************************************************************************)
VARIABLES
    COMPRESSION_ENABLED, \* VIDEO_COMPRESSION_ENABLED !== "false", read once
    now,                 \* Date.now()
    blobs,               \* the bucket: the objects [key, body, contentType]
    videos,              \* the Video table: a set of rows
    tmpFiles,            \* the temporary files that exist in tmpdir()
    post,                \* the submit requests: position and locals
    del,                 \* the delete requests: position and locals
    get,                 \* the list request: position and locals
    queue,               \* VideoDownloader: the state `queue`
    isProcessing,        \* VideoDownloader: the state `isProcessing`
    render,              \* the state as the committed render's closures see it
    pasteQueue,          \* `queue` as the registered paste listener sees it
    runs                 \* the invocations of processQueue

\* The state of the page component (src/unnamed/part_000).
clientVars == <<queue, isProcessing, render, pasteQueue, runs>>

vars == <<COMPRESSION_ENABLED, now, blobs, videos, tmpFiles, post, del, get, clientVars>>

\* body.compress: absent, true or false.
BodyCompress == {"absent", "true", "false"}

\* What the resolution service answers (CobaltResponse), beside a transport
\* failure: an error, a picker, a tunnel or redirect, or another status.
ErrorCodes == {"error.api.fetch.fail", "error.api.content.video.unavailable"}
Pickers ==
    { <<>>,
      <<[type |-> "photo", url |-> "u1"]>>,
      <<[type |-> "photo", url |-> "u1"], [type |-> "video", url |-> "u2"]>>,
      <<[type |-> "video", url |-> "u2"], [type |-> "video", url |-> "u3"]>> }
CobaltResponses ==
    [status : {"error"}, code : ErrorCodes]
    \cup [status : {"picker"}, picker : Pickers]
    \cup [status : {"tunnel", "redirect"}, url : {"u0"}, filename : Filenames]
    \cup [status : {"local-processing"}]

\* A response of a handler: NextResponse.json(body, {status}).
NoResp == [status |-> 0, error |-> "", code |-> ""]
ErrResp(st, msg, c) == [status |-> st, error |-> msg, code |-> c]
OkResp == [status |-> 200, error |-> "", code |-> ""]

\* The temporary files of the compressVideo invocation of request p: the
\* names carry a fresh randomUUID() each.
inputPath(p, mime) == [id |-> p, kind |-> "in", ext |-> getExtensionFromMimeType(mime)]
outputPath(p) == [id |-> p, kind |-> "out", ext |-> "mp4"]

InitPost ==
    [pc |-> "idle", url |-> <<>>, compress |-> "absent", shouldCompress |-> FALSE,
     cobalt |-> [status |-> "none"],
     platform |-> NullPlatform, branch |-> "none", mediaUrl |-> "",
     filename |-> <<>>, fetched |-> <<>>, fetchedType |-> "",
     buffer |-> <<>>, contentType |-> "", finalSize |-> 0,
     cres |-> "none", cfail |-> "none", compressed |-> <<>>,
     fileName |-> <<>>, fileKey |-> NoKey,
     calls |-> <<>>, created |-> 0, overdue |-> FALSE, resp |-> NoResp]

InitDel ==
    [pc |-> "idle", id |-> "", fileKey |-> NoKey, blobDeleted |-> "none",
     resp |-> NoResp]

\* GET /api/videos before it runs.
InitGet == [pc |-> "idle", videos |-> <<>>, resp |-> [status |-> 0, videos |-> <<>>]]

\* The invocations of processQueue that may be running at once, and one that
\* is not running.
RunIds == {"r1", "r2"}
InitRun == [pc |-> "idle", item |-> [id |-> 0, url |-> <<>>], rest |-> <<>>]

\* useState([]) and useState(false): the first render and the listener of
\* the first effect see the empty queue.
InitClient ==
    /\ queue = <<>>
    /\ isProcessing = FALSE
    /\ render = [queue |-> <<>>, isProcessing |-> FALSE]
    /\ pasteQueue = <<>>
    /\ runs = [r \in RunIds |-> InitRun]

Init ==
    /\ COMPRESSION_ENABLED \in BOOLEAN
    /\ now = 0
    /\ blobs = {}
    /\ videos = {}
    /\ tmpFiles = {}
    /\ post = [p \in PostIds |-> InitPost]
    /\ del = [d \in DeleteIds |-> InitDel]
    /\ get = InitGet
    /\ InitClient

\* The clock advances.
Tick ==
    /\ now < MaxClock
    /\ now' = now + 1
    /\ UNCHANGED <<COMPRESSION_ENABLED, blobs, videos, tmpFiles, post, del, get, clientVars>>

(***************************************************************************)
(* POST /api/download                                                      *)
(***************************************************************************)
\* The handler returns a response: its locals are gone. What is kept of the
\* request is its url, the answer of the resolution service, the log of the
\* calls it made, the count of the rows it created and whether it outlived
\* maxDuration.
Respond(r, resp) ==
    [InitPost EXCEPT !.pc = "done", !.resp = resp, !.url = r.url,
                     !.cobalt = r.cobalt, !.calls = r.calls, !.created = r.created,
                     !.overdue = r.overdue]

\* A handler without the outer catch: the exception leaves it and the
\* request ends with no response of the handler.
Uncaught(r, msg) == Respond(r, NoResp)

\* The catch of the handler: status 500 with the error's message.
Caught(r, msg) == Respond(r, ErrResp(500, msg, ""))

\* A stage of the pipeline is called.
Call(r, stage) == [r EXCEPT !.calls = Append(@, stage)]

\* request.json(), the two validations, and the call of requestDownload. The
\* body's url is drawn from urls, its compress from flags.
PostParse(p, urls, flags) ==
    /\ post[p].pc = "idle"
    /\ \/ post' = [post EXCEPT ![p] = Caught(@, "Unexpected end of JSON input")]
       \/ \E u \in urls, c \in flags :
            LET r == [post[p] EXCEPT !.url = u, !.compress = c] IN
            post' = [post EXCEPT ![p] =
              IF u = UrlMissing
              THEN Respond(r, ErrResp(400, "URL is required", ""))
              ELSE IF ~isUrlSupported(u)
              THEN Respond(r, ErrResp(400, "URL is not supported", ""))
              ELSE Call([r EXCEPT !.pc = "resolving",
                                  !.platform = detectPlatform(u),
                                  !.shouldCompress = (c # "false" /\ COMPRESSION_ENABLED)],
                        "resolve")]
    /\ UNCHANGED <<COMPRESSION_ENABLED, now, blobs, videos, tmpFiles, del, get, clientVars>>

\* A find that takes the first item, whatever its type.
FirstItem(picker) == IF Len(picker) = 0 THEN 0 ELSE 1

\* A find that takes the last video item.
LastVideo(picker) ==
    LET vs == {i \in 1..Len(picker) : picker[i].type = "video"}
    IN  IF vs = {} THEN 0 ELSE CHOOSE i \in vs : \A j \in vs : j <= i

\* cobaltResponse.picker.find((item) => item.type === "video"): the index of
\* the first video item, 0 when there is none.
FirstVideo(picker) ==
    LET vs == {i \in 1..Len(picker) : picker[i].type = "video"}
    IN  IF vs = {} THEN 0 ELSE CHOOSE i \in vs : \A j \in vs : i <= j

\* A dispatch whose error answer drops the upstream code.
DispatchGeneric(r, c) ==
    IF c.status = "error"
    THEN Respond(r, ErrResp(400, "Download failed", ""))
    ELSE IF c.status = "picker"
    THEN IF FirstVideo(c.picker) = 0
         THEN Respond(r, ErrResp(400, "No video found in the content", ""))
         ELSE Call([r EXCEPT !.pc = "fetching", !.branch = "picker",
                             !.mediaUrl = c.picker[FirstVideo(c.picker)].url],
                   "fetch")
    ELSE IF c.status \in {"tunnel", "redirect"}
    THEN Call([r EXCEPT !.pc = "fetching", !.branch = "direct",
                        !.mediaUrl = c.url, !.filename = c.filename],
              "fetch")
    ELSE Respond(r, ErrResp(500, "Unexpected response from download service", ""))

\* A dispatch that answers the error variant as a server error.
DispatchServerError(r, c) ==
    IF c.status = "error"
    THEN Respond(r, ErrResp(500, "Download failed: code", c.code))
    ELSE DispatchGeneric(r, c)

\* What the handler does with the answer of requestDownload, up to the call of
\* downloadFromUrl.
Dispatch(r, c) ==
    IF c.status = "error"
    THEN Respond(r, ErrResp(400, "Download failed: code", c.code))
    ELSE IF c.status = "picker"
    THEN IF FirstVideo(c.picker) = 0
         THEN Respond(r, ErrResp(400, "No video found in the content", ""))
         ELSE Call([r EXCEPT !.pc = "fetching", !.branch = "picker",
                             !.mediaUrl = c.picker[FirstVideo(c.picker)].url],
                   "fetch")
    ELSE IF c.status \in {"tunnel", "redirect"}
    THEN Call([r EXCEPT !.pc = "fetching", !.branch = "direct",
                        !.mediaUrl = c.url, !.filename = c.filename],
              "fetch")
    ELSE Respond(r, ErrResp(500, "Unexpected response from download service", ""))

\* A requestDownload that returns a transport failure as an error answer.
PostResolveFailureValue(p, responses) ==
    /\ post[p].pc = "resolving"
    /\ \E c \in responses \cup {[status |-> "error", code |-> "transport_error"]} :
         post' = [post EXCEPT ![p] = Dispatch([@ EXCEPT !.cobalt = c], c)]
    /\ UNCHANGED <<COMPRESSION_ENABLED, now, blobs, videos, tmpFiles, del, get, clientVars>>

\* requestDownload ends: it throws (the service is unreachable or answers a
\* non-success status) or returns the service's answer.
PostResolve(p, responses) ==
    /\ post[p].pc = "resolving"
    /\ \/ post' = [post EXCEPT ![p] = Caught(@, "Cobalt API error")]
       \/ \E c \in responses :
            post' = [post EXCEPT ![p] = Dispatch([@ EXCEPT !.cobalt = c], c)]
    /\ UNCHANGED <<COMPRESSION_ENABLED, now, blobs, videos, tmpFiles, del, get, clientVars>>

\* The storage key is generated and uploadFile is called: picker branch lines
\* 94-95, direct branch lines 148-153.
ToUpload(r, timestamp, randomString) ==
    LET name == IF r.branch = "picker" THEN FnVideoMp4
                ELSE ReplaceExt(r.filename, ExtMp4)
    IN  Call([r EXCEPT !.pc = "uploading", !.fileName = name,
                       !.fileKey = generateFileKey(name, timestamp, randomString)],
             "upload")

\* A handler that probes the encoder whatever shouldCompress is.
AfterFetchAlwaysProbe(r, timestamp, randomString) ==
    Call([r EXCEPT !.pc = "probing"], "probe")

\* After the download: `shouldCompress && await checkFFmpegAvailable()` probes
\* the encoder only when shouldCompress holds.
AfterFetch(r, timestamp, randomString) ==
    IF r.shouldCompress THEN Call([r EXCEPT !.pc = "probing"], "probe")
    ELSE ToUpload(r, timestamp, randomString)

\* A handler that calls downloadFromUrl a second time when the first call
\* threw.
PostFetchRetry(p, media) ==
    /\ post[p].pc = "fetching"
    /\ \/ post' = [post EXCEPT ![p] =
              IF @.calls = <<"resolve", "fetch">> THEN Call(@, "fetch")
              ELSE Caught(@, "Download failed: status")]
       \/ \E m \in media, rs \in RandomStrings :
            post' = [post EXCEPT ![p] =
              AfterFetch([@ EXCEPT !.fetched = m.body, !.fetchedType = m.contentType,
                                   !.buffer = m.body, !.contentType = m.contentType,
                                   !.finalSize = Len(m.body)],
                         now, rs)]
    /\ UNCHANGED <<COMPRESSION_ENABLED, now, blobs, videos, tmpFiles, del, get, clientVars>>

\* downloadFromUrl ends: it throws (unreachable, non-success status) or
\* returns the body and its content type.
PostFetch(p, media) ==
    /\ post[p].pc = "fetching"
    /\ \/ post' = [post EXCEPT ![p] = Caught(@, "Download failed: status")]
       \/ \E m \in media, rs \in RandomStrings :
            post' = [post EXCEPT ![p] =
              AfterFetch([@ EXCEPT !.fetched = m.body, !.fetchedType = m.contentType,
                                   !.buffer = m.body, !.contentType = m.contentType,
                                   !.finalSize = Len(m.body)],
                         now, rs)]
    /\ UNCHANGED <<COMPRESSION_ENABLED, now, blobs, videos, tmpFiles, del, get, clientVars>>

\* checkFFmpegAvailable ends: true calls compressVideo, which runs up to its
\* await of fs.writeFile; false goes on to the upload.
PostProbe(p) ==
    /\ post[p].pc = "probing"
    /\ \/ post' = [post EXCEPT ![p] = Call([@ EXCEPT !.pc = "c_write", !.cres = "running"],
                                           "compress")]
       \/ \E rs \in RandomStrings : post' = [post EXCEPT ![p] = ToUpload(@, now, rs)]
    /\ UNCHANGED <<COMPRESSION_ENABLED, now, blobs, videos, tmpFiles, del, get, clientVars>>

(***************************************************************************)
(* lib/compress.ts: compressVideo                                          *)
(***************************************************************************)
\* fs.writeFile(inputPath, inputBuffer) ends. On success the file exists and
\* the encoder is spawned; on failure the file may exist in part, and the
\* exception leaves the try block.
CompressWrite(p) ==
    /\ post[p].pc = "c_write"
    /\ \/ /\ tmpFiles' = tmpFiles \cup {inputPath(p, post[p].contentType)}
          /\ post' = [post EXCEPT ![p].pc = "c_run"]
       \/ /\ \E partial \in BOOLEAN :
               tmpFiles' = IF partial
                           THEN tmpFiles \cup {inputPath(p, post[p].contentType)}
                           ELSE tmpFiles
          /\ post' = [post EXCEPT ![p].pc = "c_finally", ![p].cres = "threw",
                                   ![p].cfail = "write"]
    /\ UNCHANGED <<COMPRESSION_ENABLED, now, blobs, videos, del, get, clientVars>>

\* runFFmpeg ends: the encoder exits with code 0 and has written the output
\* file; or it exits with another code, the output written in part or not at
\* all; or it could not be spawned.
CompressRun(p) ==
    /\ post[p].pc = "c_run"
    /\ \/ /\ tmpFiles' = tmpFiles \cup {outputPath(p)}
          /\ post' = [post EXCEPT ![p].pc = "c_read"]
       \/ /\ \E partial \in BOOLEAN :
               tmpFiles' = IF partial THEN tmpFiles \cup {outputPath(p)} ELSE tmpFiles
          /\ post' = [post EXCEPT ![p].pc = "c_finally", ![p].cres = "threw",
                                   ![p].cfail = "exit"]
       \/ /\ post' = [post EXCEPT ![p].pc = "c_finally", ![p].cres = "threw",
                                   ![p].cfail = "spawn"]
          /\ UNCHANGED tmpFiles
    /\ UNCHANGED <<COMPRESSION_ENABLED, now, blobs, videos, del, get, clientVars>>

\* maxDuration (300 seconds) have passed since the request began, and the
\* encoder is still running. The handler holds no timer and runFFmpeg keeps
\* no handle on the child outside its two listeners: nothing is killed,
\* nothing is removed, and the promise of runFFmpeg stays pending.
BudgetElapses(p) ==
    /\ post[p].pc = "c_run"
    /\ ~post[p].overdue
    /\ post' = [post EXCEPT ![p].overdue = TRUE]
    /\ UNCHANGED <<COMPRESSION_ENABLED, now, blobs, videos, tmpFiles, del, get, clientVars>>

\* fs.readFile(outputPath) ends: the result is built from what the encoder
\* wrote, or the read throws.
CompressRead(p) ==
    /\ post[p].pc = "c_read"
    /\ \/ \E out \in EncodedBodies :
            post' = [post EXCEPT ![p].pc = "c_finally", ![p].cres = "returned",
                                 ![p].compressed = out]
       \/ post' = [post EXCEPT ![p].pc = "c_finally", ![p].cres = "threw",
                                ![p].cfail = "read"]
    /\ UNCHANGED <<COMPRESSION_ENABLED, now, blobs, videos, tmpFiles, del, get, clientVars>>

\* try { await fs.unlink(path) } catch { }: the file is removed; unlink of a
\* file that does not exist throws, and the exception is swallowed.
UnlinkSwallow(files, path) == files \ {path}

\* A finally block that forgets the output file.
FinallyInputOnly(files, inPath, outPath) == UnlinkSwallow(files, inPath)

\* The finally block: the two unlinks, each in a try of its own.
Finally(files, inPath, outPath) ==
    UnlinkSwallow(UnlinkSwallow(files, inPath), outPath)

\* A handler that takes the encoded bytes but leaves finalSize at the
\* original size.
OnCompressReturnKeepSize(r) ==
    [r EXCEPT !.buffer = r.compressed, !.contentType = "video/mp4"]

\* compressVideo returned: lines 138-140 (84-86) take the result over.
OnCompressReturn(r) ==
    [r EXCEPT !.buffer = r.compressed, !.finalSize = Len(r.compressed),
              !.contentType = "video/mp4"]

\* A handler that sets the content type before it knows the outcome.
OnCompressThrowMp4(r, timestamp, randomString) ==
    ToUpload([r EXCEPT !.contentType = "video/mp4"], timestamp, randomString)

\* A handler without the inner catch: the exception reaches the outer one.
OnCompressRethrow(r, timestamp, randomString) == Caught(r, "FFmpeg exited with code")

\* compressVideo threw: the catch of lines 142-145 (88-91) logs and goes on.
OnCompressThrow(r, timestamp, randomString) == ToUpload(r, timestamp, randomString)

\* The finally block of compressVideo runs and the call ends, returning the
\* result or throwing into the handler's try around it. The two unlinks touch
\* only the files of this invocation and are one step here.
CompressFinally(p) ==
    /\ post[p].pc = "c_finally"
    /\ tmpFiles' = Finally(tmpFiles, inputPath(p, post[p].contentType), outputPath(p))
    /\ \E rs \in RandomStrings :
         post' = [post EXCEPT ![p] =
           IF @.cres = "returned" THEN ToUpload(OnCompressReturn(@), now, rs)
           ELSE OnCompressThrow(@, now, rs)]
    /\ UNCHANGED <<COMPRESSION_ENABLED, now, blobs, videos, del, get, clientVars>>

(***************************************************************************)
(* The blob store (lib/storage.ts) and the Video table.                    *)
(***************************************************************************)
\* PutObject: the object under the key is written, replacing any other.
PutObject(store, key, body, contentType) ==
    {o \in store : o.key # key}
        \cup {[key |-> key, body |-> body, contentType |-> contentType]}

\* DeleteObject: the object under the key, if any, is removed.
DeleteObject(store, key) == {o \in store : o.key # key}

LiveKeys == {o.key : o \in blobs}

\* The unique index Video_fileKey_key.
FileKeyTaken(rows, key) == \E v \in rows : v.fileKey = key

\* A row left at the default status of the column.
NewVideoPending(p, r, createdAt) ==
    [id |-> p,
     title |-> IF r.branch = "picker" THEN <<"Video from ", r.platform>>
               ELSE extractTitleFromFilename(r.filename),
     fileName |-> r.fileName, fileKey |-> r.fileKey, fileSize |-> r.finalSize,
     mimeType |-> r.contentType, status |-> "PENDING", platform |-> r.platform,
     originalUrl |-> r.url, createdAt |-> createdAt]

\* The row prisma.video.create writes for request p (lines 98-109, 159-170).
\* The id is generated per row; here it is the creating request.
NewVideo(p, r, createdAt) ==
    [id |-> p,
     title |-> IF r.branch = "picker" THEN <<"Video from ", r.platform>>
               ELSE extractTitleFromFilename(r.filename),
     fileName |-> r.fileName, fileKey |-> r.fileKey, fileSize |-> r.finalSize,
     mimeType |-> r.contentType, status |-> "COMPLETED", platform |-> r.platform,
     originalUrl |-> r.url, createdAt |-> createdAt]

\* A handler that inserts a placeholder row before the upload has ended.
PostUploadPlaceholder(p) ==
    /\ post[p].pc = "uploading"
    /\ \/ /\ blobs' = PutObject(blobs, post[p].fileKey, post[p].buffer, post[p].contentType)
          /\ post' = [post EXCEPT ![p] = Call([@ EXCEPT !.pc = "persisting"], "persist")]
          /\ UNCHANGED videos
       \/ /\ post' = [post EXCEPT ![p] = Caught(@, "S3 error")]
          /\ videos' = videos \cup {NewVideoPending(p, post[p], now)}
          /\ UNCHANGED blobs
    /\ UNCHANGED <<COMPRESSION_ENABLED, now, tmpFiles, del, get, clientVars>>

\* uploadFile ends: the object is stored and prisma.video.create is called,
\* or the upload throws.
PostUpload(p) ==
    /\ post[p].pc = "uploading"
    /\ \/ /\ blobs' = PutObject(blobs, post[p].fileKey, post[p].buffer, post[p].contentType)
          /\ post' = [post EXCEPT ![p] = Call([@ EXCEPT !.pc = "persisting"], "persist")]
       \/ /\ post' = [post EXCEPT ![p] = Caught(@, "S3 error")]
          /\ UNCHANGED blobs
    /\ UNCHANGED <<COMPRESSION_ENABLED, now, videos, tmpFiles, del, get, clientVars>>

\* prisma.video.create ends: the row is inserted and the handler answers with
\* its projection; or the insert throws: always when the fileKey is taken
\* (the unique index), and whenever the store fails.
PostPersist(p) ==
    /\ post[p].pc = "persisting"
    /\ \/ /\ ~FileKeyTaken(videos, post[p].fileKey)
          /\ videos' = videos \cup {NewVideo(p, post[p], now)}
          /\ post' = [post EXCEPT ![p] = Respond([@ EXCEPT !.created = @ + 1], OkResp)]
       \/ /\ post' = [post EXCEPT ![p] = Caught(@, "Prisma error")]
          /\ UNCHANGED videos
    /\ UNCHANGED <<COMPRESSION_ENABLED, now, blobs, tmpFiles, del, get, clientVars>>

(***************************************************************************)
(* DELETE /api/videos                                                      *)
(***************************************************************************)
\* The ids a delete request may carry: the id of a row, or none ("").
VideoIds == PostIds
NoId == ""

\* The handler returns a response; its locals are gone.
RespondDel(r, resp) == [InitDel EXCEPT !.pc = "done", !.resp = resp]

\* The id is read from the query; prisma.video.findUnique is called.
DelStart(d) ==
    /\ del[d].pc = "idle"
    /\ \E id \in VideoIds \cup {NoId} :
         del' = [del EXCEPT ![d] =
           IF id = NoId THEN RespondDel(@, ErrResp(400, "Video ID is required", ""))
           ELSE [@ EXCEPT !.pc = "finding", !.id = id]]
    /\ UNCHANGED <<COMPRESSION_ENABLED, now, blobs, videos, tmpFiles, post, get, clientVars>>

\* findUnique ends: no row answers 404; a row calls deleteFile on its
\* fileKey; a failure of the store is caught by the handler.
DelFind(d) ==
    /\ del[d].pc = "finding"
    /\ \/ del' = [del EXCEPT ![d] =
            IF \E v \in videos : v.id = del[d].id
            THEN [@ EXCEPT !.pc = "deletingFile",
                           !.fileKey = (CHOOSE v \in videos : v.id = del[d].id).fileKey]
            ELSE RespondDel(@, ErrResp(404, "Video not found", ""))]
       \/ del' = [del EXCEPT ![d] = RespondDel(@, ErrResp(500, "Failed to delete video", ""))]
    /\ UNCHANGED <<COMPRESSION_ENABLED, now, blobs, videos, tmpFiles, post, get, clientVars>>

\* A deleteFile that reports success without removing the object.
DelFileSkip(d) ==
    /\ del[d].pc = "deletingFile"
    /\ \E outcome \in {"yes", "failed"} :
         del' = [del EXCEPT ![d].pc = "deletingRow", ![d].blobDeleted = outcome]
    /\ UNCHANGED <<COMPRESSION_ENABLED, now, blobs, videos, tmpFiles, post, get, clientVars>>

\* A handler without the inner catch: a failed deleteFile ends the request.
DelFileFatal(d) ==
    /\ del[d].pc = "deletingFile"
    /\ \/ /\ blobs' = DeleteObject(blobs, del[d].fileKey)
          /\ del' = [del EXCEPT ![d].pc = "deletingRow", ![d].blobDeleted = "yes"]
       \/ /\ del' = [del EXCEPT ![d] = RespondDel(@, ErrResp(500, "Failed to delete video", ""))]
          /\ UNCHANGED blobs
    /\ UNCHANGED <<COMPRESSION_ENABLED, now, videos, tmpFiles, post, get, clientVars>>

\* deleteFile ends: the object is removed, or the call throws and the inner
\* catch logs it; either way prisma.video.delete is called.
DelFile(d) ==
    /\ del[d].pc = "deletingFile"
    /\ \/ /\ blobs' = DeleteObject(blobs, del[d].fileKey)
          /\ del' = [del EXCEPT ![d].pc = "deletingRow", ![d].blobDeleted = "yes"]
       \/ /\ del' = [del EXCEPT ![d].pc = "deletingRow", ![d].blobDeleted = "failed"]
          /\ UNCHANGED blobs
    /\ UNCHANGED <<COMPRESSION_ENABLED, now, videos, tmpFiles, post, get, clientVars>>

\* prisma.video.delete ends: the row is removed and the handler answers
\* success; it throws when the row is no longer there or the store fails, and
\* the handler's catch answers 500.
DelRow(d) ==
    /\ del[d].pc = "deletingRow"
    /\ \/ /\ \E v \in videos : v.id = del[d].id
          /\ videos' = {v \in videos : v.id # del[d].id}
          /\ del' = [del EXCEPT ![d] = RespondDel(@, OkResp)]
       \/ /\ del' = [del EXCEPT ![d] = RespondDel(@, ErrResp(500, "Failed to delete video", ""))]
          /\ UNCHANGED videos
    /\ UNCHANGED <<COMPRESSION_ENABLED, now, blobs, tmpFiles, post, get, clientVars>>

(***************************************************************************)
(* The specifications.                                                     *)
(*                                                                         *)
(* Spec is the service under concurrency: two submit requests and two      *)
(* delete requests interleave over the bucket and the table, every call    *)
(* to either store may fail, and compression is disabled process-wide      *)
(* (VIDEO_COMPRESSION_ENABLED=false), so a request goes from the download  *)
(* to the upload.                                                          *)
(*                                                                         *)
(* Pipeline is one submit request with every input the handler reads:      *)
(* any body, any answer of the resolution service, any media, the encoder  *)
(* probe and every way compressVideo ends.                                 *)
(***************************************************************************)
StoreUrls == {UrlYouTube}
StoreFlags == {"absent"}
StoreResponses == [status : {"tunnel"}, url : {"u0"}, filename : {FnWebm}]
StoreMedia == [body : RawBodies, contentType : {"video/mp4"}]

Next ==
    \/ Tick
    \/ \E p \in PostIds : PostParse(p, StoreUrls, StoreFlags)
    \/ \E p \in PostIds : PostResolve(p, StoreResponses)
    \/ \E p \in PostIds : PostFetch(p, StoreMedia)
    \/ \E p \in PostIds : PostUpload(p)
    \/ \E p \in PostIds : PostPersist(p)
    \/ \E d \in DeleteIds : DelStart(d)
    \/ \E d \in DeleteIds : DelFind(d)
    \/ \E d \in DeleteIds : DelFile(d)
    \/ \E d \in DeleteIds : DelRow(d)

\* The service started with VIDEO_COMPRESSION_ENABLED=false.
InitDisabled == Init /\ COMPRESSION_ENABLED = FALSE

Spec == InitDisabled /\ [][Next]_vars

PipelineNext ==
    \/ Tick
    \/ PostParse("p1", Urls, BodyCompress)
    \/ PostResolve("p1", CobaltResponses)
    \/ PostFetch("p1", Media)
    \/ PostProbe("p1")
    \/ CompressWrite("p1")
    \/ BudgetElapses("p1")
    \/ CompressRun("p1")
    \/ CompressRead("p1")
    \/ CompressFinally("p1")
    \/ PostUpload("p1")
    \/ PostPersist("p1")

Pipeline == Init /\ [][PipelineNext]_vars

(***************************************************************************)
(* GET /api/videos                                                         *)
(***************************************************************************)
\* take: 50
take == 50

\* orderBy: { createdAt: "desc" }
IsDescByCreatedAt(seq) ==
    \A i, j \in 1..Len(seq) : i < j => seq[i].createdAt >= seq[j].createdAt

\* The answers findMany may give for a table: its rows in an order that is
\* descending in createdAt (rows of one createdAt in any order).
Orderings(rows) ==
    {seq \in [1..Cardinality(rows) -> rows] :
        /\ \A i, j \in 1..Cardinality(rows) : i # j => seq[i] # seq[j]
        /\ IsDescByCreatedAt(seq)}

Take(seq, n) == SubSeq(seq, 1, IF Len(seq) < n THEN Len(seq) ELSE n)

\* downloadUrl: string | null
NullUrl == [null |-> TRUE, key |-> NoKey]
SignedUrl(key) == [null |-> FALSE, key |-> key]

\* The handler returns a response; its locals are gone.
RespondGet(resp) == [InitGet EXCEPT !.pc = "done", !.resp = resp]

\* findMany ends: the rows, or a failure that the catch answers with 500.
ListFind ==
    /\ get.pc = "idle"
    /\ \/ \E seq \in Orderings(videos) :
            get' = [get EXCEPT !.pc = "signing", !.videos = Take(seq, take)]
       \/ get' = RespondGet([status |-> 500, videos |-> <<>>])
    /\ UNCHANGED <<COMPRESSION_ENABLED, now, blobs, videos, tmpFiles, post, del, clientVars>>

\* A map without the inner catch: one failed signature rejects Promise.all.
ListSignAllOrNothing ==
    /\ get.pc = "signing"
    /\ \/ get' = RespondGet([status |-> 200,
                             videos |-> [i \in 1..Len(get.videos) |->
                                [video |-> get.videos[i],
                                 downloadUrl |-> SignedUrl(get.videos[i].fileKey)]]])
       \/ get.videos # <<>> /\ get' = RespondGet([status |-> 500, videos |-> <<>>])
    /\ UNCHANGED <<COMPRESSION_ENABLED, now, blobs, videos, tmpFiles, post, del, clientVars>>

\* Promise.all over the rows ends: getSignedDownloadUrl threw for the rows in
\* failed, whose downloadUrl stays null, and returned for the others.
ListSign ==
    /\ get.pc = "signing"
    /\ \E failed \in SUBSET (1..Len(get.videos)) :
         get' = RespondGet([status |-> 200,
                            videos |-> [i \in 1..Len(get.videos) |->
                               [video |-> get.videos[i],
                                downloadUrl |-> IF i \in failed THEN NullUrl
                                                ELSE SignedUrl(get.videos[i].fileKey)]]])
    /\ UNCHANGED <<COMPRESSION_ENABLED, now, blobs, videos, tmpFiles, post, del, clientVars>>

\* Listing is the service with two submit requests and one list request.
ListingNext ==
    \/ Tick
    \/ \E p \in PostIds : PostParse(p, StoreUrls, StoreFlags)
    \/ \E p \in PostIds : PostResolve(p, StoreResponses)
    \/ \E p \in PostIds : PostFetch(p, StoreMedia)
    \/ \E p \in PostIds : PostUpload(p)
    \/ \E p \in PostIds : PostPersist(p)
    \/ ListFind
    \/ ListSign

Listing == InitDisabled /\ [][ListingNext]_vars

(***************************************************************************)
(* The page: VideoDownloader (src/unnamed/part_000, lines 572-723).        *)
(*                                                                         *)
(* `queue` and `isProcessing` are React state. A handler is a closure of   *)
(* the render it was created in and reads the state of that render;        *)
(* setQueue(prev => ...) is applied to the current state. The updates a    *)
(* handler makes during a discrete event (click, keydown, paste) are       *)
(* rendered, and the effects of that render run, before the next event is  *)
(* dispatched; the updates made after an await are rendered later, and     *)
(* events may come in before.                                              *)
(***************************************************************************)
\* Strings, token by token: " " is white space, UrlA and UrlB parse as URLs,
\* "x" does not.
UrlA == <<"https://a">>
UrlB == <<"https://b">>
Blank == <<" ">>

\* What may be in the input field when Enter or the add button is pressed.
TypedInputs == {Blank, UrlA, UrlB, UrlA \o Blank}

\* Pasted texts, as text.split(/[\n\r]+/) takes them apart.
PastedTexts == { <<UrlA, UrlA>>, <<Blank \o UrlB, <<"x">>>>, <<UrlB, UrlA \o Blank>> }

\* s.trim()
RECURSIVE TrimLeft(_)
TrimLeft(s) == IF s # <<>> /\ Head(s) = " " THEN TrimLeft(Tail(s)) ELSE s
RECURSIVE TrimRight(_)
TrimRight(s) ==
    IF s # <<>> /\ s[Len(s)] = " " THEN TrimRight(SubSeq(s, 1, Len(s) - 1)) ELSE s
Trim(s) == TrimRight(TrimLeft(s))

\* isValidUrl: new URL(string) does not throw.
isValidUrl(string) == Trim(string) # <<>> /\ Trim(string)[1] \in {"https://a", "https://b"}

\* .map(line => line.trim()).filter(line => line && isValidUrl(line))
RECURSIVE PastedUrls(_)
PastedUrls(lines) ==
    IF lines = <<>> THEN <<>>
    ELSE LET line == Trim(Head(lines))
         IN  IF line # <<>> /\ isValidUrl(line) THEN <<line>> \o PastedUrls(Tail(lines))
             ELSE PastedUrls(Tail(lines))

\* The values of Math.random().toString(36).substring(7).
ItemIds == 1..NumRand

\* The queue holds at most MaxQueue items.
MaxQueue == 3

UrlsOf(q) == {q[i].url : i \in 1..Len(q)}
NewItem(id, url) == [id |-> id, url |-> url, status |-> "pending"]

\* prev.map(i => i.id === id ? { ...i, status } : i)
SetStatus(q, id, status) ==
    [i \in 1..Len(q) |-> IF q[i].id = id THEN [q[i] EXCEPT !.status = status] ELSE q[i]]

\* queue.filter(item => item.status === "pending")
PendingItems(q) == LET isPending(item) == item.status = "pending" IN SelectSeq(q, isPending)

\* The render of the updates of a discrete event, and the effect of that
\* render, which registers the paste listener anew.
Flush(q, processing) ==
    /\ render' = [queue |-> q, isProcessing |-> processing]
    /\ pasteQueue' = q

serverVars == <<COMPRESSION_ENABLED, now, blobs, videos, tmpFiles, post, del, get>>

\* An addToQueue that does not look for the link in the queue.
addToQueueUnchecked(urlToAdd, id) ==
    /\ Len(queue) < MaxQueue
    /\ IF Trim(urlToAdd) = <<>>
       THEN UNCHANGED <<queue, render, pasteQueue>>
       ELSE /\ queue' = Append(queue, NewItem(id, urlToAdd))
            /\ Flush(queue', isProcessing)
    /\ UNCHANGED <<isProcessing, runs, serverVars>>

\* addToQueue(urlInput), from Enter or the add button.
addToQueue(urlToAdd, id) ==
    /\ Len(queue) < MaxQueue
    /\ IF Trim(urlToAdd) = <<>> \/ urlToAdd \in UrlsOf(render.queue)
       THEN UNCHANGED <<queue, render, pasteQueue>>
       ELSE /\ queue' = Append(queue, NewItem(id, urlToAdd))
            /\ Flush(queue', isProcessing)
    /\ UNCHANGED <<isProcessing, runs, serverVars>>

\* The loop of addMultipleToQueue: the urls that are neither in existingUrls
\* nor earlier in the batch.
RECURSIVE NewUrls(_, _)
NewUrls(urls, existingUrls) ==
    IF urls = <<>> THEN <<>>
    ELSE IF Head(urls) \in existingUrls THEN NewUrls(Tail(urls), existingUrls)
    ELSE <<Head(urls)>> \o NewUrls(Tail(urls), existingUrls \cup {Head(urls)})

\* handlePaste and addMultipleToQueue, in the closure of the effect that
\* registered the listener.
handlePaste(pastedText, ids) ==
    LET urls == PastedUrls(pastedText)
        fresh == NewUrls(urls, UrlsOf(pasteQueue))
        newItems == [i \in 1..Len(fresh) |-> NewItem(ids[i], fresh[i])]
    IN  /\ Len(queue) + Len(urls) <= MaxQueue
        /\ IF newItems = <<>>
           THEN UNCHANGED <<queue, render, pasteQueue>>
           ELSE /\ queue' = queue \o newItems
                /\ Flush(queue', isProcessing)
        /\ UNCHANGED <<isProcessing, runs, serverVars>>

\* removeFromQueue(item.id), from the button of an item of the render.
removeFromQueue(id) ==
    /\ \E i \in 1..Len(render.queue) : render.queue[i].id = id
    /\ LET keep(item) == item.id # id IN queue' = SelectSeq(queue, keep)
    /\ Flush(queue', isProcessing)
    /\ UNCHANGED <<isProcessing, runs, serverVars>>

\* downloadItem(item) up to its await of fetch: the item is set to
\* downloading and invocation r waits for the answer.
StartItem(r, q, items) ==
    /\ queue' = SetStatus(q, Head(items).id, "downloading")
    /\ runs' = [runs EXCEPT ![r] = [pc |-> "fetching",
                                    item |-> [id |-> Head(items).id, url |-> Head(items).url],
                                    rest |-> Tail(items)]]

\* processQueue is called (invocation r), in the closure of the render: it
\* returns at once when that render's isProcessing is set; else it sets
\* isProcessing, takes the pending items of that render's queue and starts
\* the first (with none, it resets isProcessing and ends).
processQueue(r) ==
    /\ runs[r].pc = "idle"
    /\ LET pendingItems == PendingItems(render.queue)
       IN  IF render.isProcessing
           THEN UNCHANGED <<queue, isProcessing, render, pasteQueue, runs>>
           ELSE IF pendingItems = <<>>
           THEN /\ isProcessing' = FALSE
                /\ Flush(queue, FALSE)
                /\ UNCHANGED <<queue, runs>>
           ELSE /\ StartItem(r, queue, pendingItems)
                /\ isProcessing' = TRUE
                /\ Flush(queue', TRUE)
    /\ UNCHANGED serverVars

\* The fetch of invocation r ends: the item is set to completed (response.ok)
\* or to error (not ok, or fetch or json threw); then the loop of
\* processQueue starts the next item, or resets isProcessing. These updates
\* come after an await: the render is not yet theirs.
FetchEnds(r) ==
    /\ runs[r].pc = "fetching"
    /\ \E status \in {"completed", "error"} :
         LET q == SetStatus(queue, runs[r].item.id, status) IN
         IF runs[r].rest = <<>>
         THEN /\ queue' = q
              /\ isProcessing' = FALSE
              /\ runs' = [runs EXCEPT ![r] = InitRun]
         ELSE /\ StartItem(r, q, runs[r].rest)
              /\ UNCHANGED isProcessing
    /\ UNCHANGED <<render, pasteQueue, serverVars>>

\* React renders the updates made after an await.
Commit ==
    /\ render # [queue |-> queue, isProcessing |-> isProcessing]
    /\ render' = [queue |-> queue, isProcessing |-> isProcessing]
    /\ UNCHANGED <<queue, isProcessing, pasteQueue, runs, serverVars>>

\* The effect of lines 588-610 (dependency [queue]) runs after such a render.
Effect ==
    /\ pasteQueue # render.queue
    /\ pasteQueue' = render.queue
    /\ UNCHANGED <<queue, isProcessing, render, runs, serverVars>>

\* Client is the page alone: the user types, pastes, removes and triggers
\* processQueue in any order, and every fetch ends one way or the other.
ClientNext ==
    \/ \E u \in TypedInputs, id \in ItemIds : addToQueue(u, id)
    \/ \E t \in PastedTexts : \E ids \in [1..Len(t) -> ItemIds] : handlePaste(t, ids)
    \/ \E id \in ItemIds : removeFromQueue(id)
    \/ \E r \in RunIds : processQueue(r)
    \/ \E r \in RunIds : FetchEnds(r)
    \/ Commit
    \/ Effect

Client == InitDisabled /\ [][ClientNext]_vars

(***************************************************************************)
(* The claims.                                                             *)
(***************************************************************************)
Done(p) == post[p].pc = "done" /\ post[p].resp.status = 200
Failed(p) == post[p].pc = "done" /\ post[p].resp.status # 200
RowsOf(p) == {v \in videos : v.id = p}
FilesOf(p) == {f \in tmpFiles : f.id = p}

\* C1: in every reachable state, every row of the Video table has its
\* fileKey live in the bucket. The delete handler removes the object before
\* the row, so the statement fails (under Spec).
C1_RecordHasLiveBlob == \A v \in videos : v.fileKey \in LiveKeys

C3_NoRecordOnFetchOrUploadFailure ==
    \A p \in PostIds :
        post[p].pc = "done" =>
            /\ post[p].resp.error = "Download failed: status" =>
                   /\ Failed(p) /\ post[p].created = 0 /\ RowsOf(p) = {}
                   /\ post[p].calls = <<"resolve", "fetch">> /\ blobs = {}
            /\ post[p].resp.error = "S3 error" =>
                   /\ Failed(p) /\ post[p].created = 0 /\ RowsOf(p) = {}
                   /\ blobs = {}

C3_Witness ==
    \E p \in PostIds : post[p].pc = "done" /\ post[p].resp.error = "S3 error"
                       /\ "compress" \in {post[p].calls[i] : i \in 1..Len(post[p].calls)}

\* C4: a request that ended in Done has created exactly one row, of status
\* COMPLETED; a request that ended in Failed has created none.
C4_DoneOneCompletedRecord ==
    \A p \in PostIds :
        /\ Done(p) => /\ post[p].created = 1
                      /\ Cardinality(RowsOf(p)) = 1
                      /\ \A v \in RowsOf(p) : v.status = "COMPLETED"
        /\ Failed(p) => post[p].created = 0 /\ RowsOf(p) = {}

C4_Witness == \E p \in PostIds : Done(p) /\ RowsOf(p) # {}

\* C5: when prisma.video.create fails after the upload succeeded, the request
\* is answered as a failure, and the uploaded object stays in the bucket with
\* no row pointing to it. Two requests can draw the same key, and then the
\* second create fails on the unique index while the first row points to the
\* key: the statement fails (under Spec).
C5_PersistFailureOrphansBlob ==
    [][\A p \in PostIds :
          (post[p].pc = "persisting" /\ post'[p].pc = "done" /\ post'[p].created = 0)
          => /\ post'[p].resp.status = 500
             /\ post[p].fileKey \in {o.key : o \in blobs'}
             /\ ~ \E v \in videos' : v.fileKey = post[p].fileKey]_vars

\* C6: when the resolution service answers the error variant, the request is
\* answered as a failure whose error carries the upstream code, and only
\* requestDownload was called: nothing is fetched, encoded, uploaded or
\* recorded.
C6_FailureVariantSurfacesCode ==
    \A p \in PostIds :
        post[p].cobalt.status = "error"
        => /\ Failed(p)
           /\ post[p].resp.error = "Download failed: code"
           /\ post[p].resp.code = post[p].cobalt.code
           /\ post[p].calls = <<"resolve">>
           /\ post[p].created = 0
           /\ blobs = {} /\ videos = {} /\ tmpFiles = {}

C6_Witness ==
    \E p \in PostIds : post[p].cobalt.status = "error" /\ post[p].pc = "done"
                       /\ post[p].resp.code = "error.api.content.video.unavailable"

\* C7: for a picker answer with no item of type video (empty, or photos
\* only), the request fails with the no-video error, and only requestDownload
\* was called: nothing is fetched or uploaded and no row is created.
C7_PickerWithoutVideoFails ==
    \A p \in PostIds :
        (/\ post[p].cobalt.status = "picker"
         /\ \A i \in 1..Len(post[p].cobalt.picker) : post[p].cobalt.picker[i].type # "video")
        => /\ Failed(p)
           /\ post[p].resp.error = "No video found in the content"
           /\ post[p].calls = <<"resolve">>
           /\ post[p].created = 0
           /\ blobs = {} /\ videos = {} /\ tmpFiles = {}

C7_Witness ==
    \E p \in PostIds : /\ post[p].cobalt.status = "picker"
                       /\ Len(post[p].cobalt.picker) = 1
                       /\ post[p].pc = "done"

\* C8: when compressVideo was called and failed, that is no failure of the
\* request: it goes on to the upload, the object it uploads holds the fetched
\* bytes under the fetched content type, and the row it creates on success
\* has the fetched size and content type.
C8_CompressFailureKeepsOriginal ==
    [][\A p \in PostIds :
          post[p].cres = "threw"
          => /\ post[p].pc = "c_finally" => post'[p].pc \in {"c_finally", "uploading"}
             /\ (post[p].pc = "uploading" /\ post'[p].pc = "persisting")
                => [key |-> post[p].fileKey, body |-> post[p].fetched,
                    contentType |-> post[p].fetchedType] \in blobs'
             /\ (post[p].pc = "persisting" /\ post'[p].pc = "done" /\ post'[p].created = 1)
                => /\ post'[p].resp.status = 200
                   /\ \E v \in videos' :
                        /\ v.id = p /\ v.status = "COMPLETED"
                        /\ v.fileSize = Len(post[p].fetched)
                        /\ v.mimeType = post[p].fetchedType]_vars

C8_Witness ==
    \E p \in PostIds :
        /\ Done(p)
        /\ post[p].calls = <<"resolve", "fetch", "probe", "compress", "upload", "persist">>
        /\ \E v \in RowsOf(p) : v.mimeType = "video/webm"

\* C9, as stated: compressVideo never throws; a failed encoder run is
\* returned as an outcome. It fails: compressVideo has no catch.
C9_CompressNeverThrows == \A p \in PostIds : post[p].cres # "threw"

\* C9, amended: when writing the input, the encoder (non-zero exit, spawn
\* failure) or reading the output fails, compressVideo throws once its
\* finally block has run, and the handler that called it catches the
\* exception: the request goes on to the upload and is not answered by it.
C9_ThrowCaughtByHandler ==
    [][\A p \in PostIds :
          (post[p].pc = "c_finally" /\ post[p].cfail \in {"write", "exit", "spawn", "read"})
          => /\ post[p].cres = "threw"
             /\ post'[p].pc \in {"c_finally", "uploading"}
             /\ post'[p].resp = NoResp]_vars

C9_Witness ==
    \E p \in PostIds : post[p].pc = "uploading" /\ post[p].cfail = "spawn"

\* C10: once a compressVideo invocation has ended, returning or throwing,
\* neither its temporary input file nor its temporary output file exists.
CompressPcs == {"c_write", "c_run", "c_read", "c_finally"}
C11_OverdueEndsInTimeout ==
    \A p \in PostIds :
        (post[p].overdue /\ post[p].pc = "done")
        => (post[p].resp.status # 200 /\ post[p].resp.error = "Request timed out")

\* C12: when compressVideo returned a result, the encoded bytes are no more
\* than the fetched ones, and the row created for the request has a fileSize
\* no greater than the fetched size. compressVideo returns whatever the
\* encoder wrote and the handler takes it over without comparing the sizes:
\* the statement fails.
C12_CompressedNotLarger ==
    [][\A p \in PostIds :
          post[p].cres = "returned"
          => /\ Len(post[p].compressed) <= Len(post[p].fetched)
             /\ (post[p].pc = "persisting" /\ post'[p].pc = "done" /\ post'[p].created = 1)
                => \A v \in videos' : v.id = p => v.fileSize <= Len(post[p].fetched)]_vars

\* C13: for a tunnel or redirect answer, whatever its filename, when
\* compressVideo returned a result the row created for the request has a
\* fileName that ends in ".mp4". filename.replace(/\.[^/.]+$/, ".mp4") leaves
\* a name without extension as it is: the statement fails.
EndsWith(s, suffix) ==
    /\ Len(s) >= Len(suffix)
    /\ SubSeq(s, Len(s) - Len(suffix) + 1, Len(s)) = suffix

C13_DirectCompressedNameIsMp4 ==
    [][\A p \in PostIds :
          (/\ post[p].branch = "direct" /\ post[p].cres = "returned"
           /\ post[p].pc = "persisting" /\ post'[p].pc = "done" /\ post'[p].created = 1)
          => \A v \in videos' : v.id = p => EndsWith(v.fileName, ExtMp4)]_vars

\* C14: the key generateFileKey gives a request is the key of no other
\* request: not of one in flight, and not of an earlier one, whose object or
\* row holds it. The key is Date.now() and a Math.random() string: two
\* requests in the same millisecond can draw the same string, and the
\* statement fails (under Spec).
C14_GeneratedKeyIsFresh ==
    [][\A p \in PostIds :
          (post[p].fileKey = NoKey /\ post'[p].fileKey # NoKey)
          => /\ \A q \in PostIds \ {p} : post[q].fileKey # post'[p].fileKey
             /\ post'[p].fileKey \notin LiveKeys
             /\ ~FileKeyTaken(videos, post'[p].fileKey)]_vars

\* C15, as stated: requestDownload always returns a value, so once the call
\* has ended the handler holds an answer (cobaltResponse). It fails:
\* requestDownload throws when fetch rejects or the status is not a success.
C15_ResolveAlwaysReturns ==
    \A p \in PostIds :
        (Len(post[p].calls) >= 1 /\ post[p].pc # "resolving")
        => post[p].cobalt.status # "none"

\* C15, amended: requestDownload returns the answer of the resolution service
\* or throws. When it throws, the handler holds no answer, its catch answers
\* 500 with the error's message and nothing else was called; the only error
\* codes a request is answered with are those the service itself sent, and
\* transport_error is none of them.
C15_ResolveThrowsOnTransportFailure ==
    \A p \in PostIds :
        /\ (Len(post[p].calls) >= 1 /\ post[p].pc # "resolving"
            /\ post[p].cobalt.status = "none")
           => /\ post[p].pc = "done"
              /\ post[p].resp = ErrResp(500, "Cobalt API error", "")
              /\ post[p].calls = <<"resolve">>
              /\ post[p].created = 0
              /\ blobs = {} /\ videos = {} /\ tmpFiles = {}
        /\ post[p].resp.code # ""
           => /\ post[p].resp.code \in ErrorCodes
              /\ post[p].cobalt = [status |-> "error", code |-> post[p].resp.code]

C15_Witness ==
    \E p \in PostIds : /\ post[p].pc = "done"
                       /\ post[p].calls = <<"resolve">>
                       /\ post[p].cobalt.status = "none"
                       /\ post[p].resp.error = "Cobalt API error"

\* The causes of a failed request, read from what is kept of it: the last
\* stage it called is the one that failed.
LastCall(p) == post[p].calls[Len(post[p].calls)]
UrlRejected(p) ==
    /\ post[p].pc = "done" /\ post[p].calls = <<>>
    /\ post[p].url # UrlMissing /\ detectPlatform(post[p].url) = NullPlatform
ResolveThrew(p) ==
    post[p].pc = "done" /\ post[p].calls = <<"resolve">> /\ post[p].cobalt.status = "none"
ResolveAnsweredError(p) == post[p].pc = "done" /\ post[p].cobalt.status = "error"
FetchThrew(p) ==
    post[p].pc = "done" /\ post[p].calls # <<>> /\ LastCall(p) = "fetch"
StoreThrew(p) ==
    /\ post[p].pc = "done" /\ post[p].calls # <<>>
    /\ \/ LastCall(p) = "upload"
       \/ LastCall(p) = "persist" /\ post[p].created = 0
ServerError(p) == post[p].resp.status = 500 /\ post[p].resp.error # ""
ClientError(p) == post[p].resp.status = 400 /\ post[p].resp.error # ""

\* C16, as stated: an unsupported URL is answered with a client error, and
\* every upstream failure (the resolution service answers an error or cannot
\* be reached, the fetch fails, a store fails) with a server error that
\* carries a message. It fails: the error answer of the resolution service
\* is answered with status 400.
C16_UpstreamFailuresAreServerErrors ==
    \A p \in PostIds :
        /\ UrlRejected(p) => ClientError(p)
        /\ (ResolveAnsweredError(p) \/ ResolveThrew(p) \/ FetchThrew(p) \/ StoreThrew(p))
           => ServerError(p)

\* C16, amended: an unsupported URL is answered with a client error, and so
\* is an error answer of the resolution service, whose code the message
\* carries; a resolution service that cannot be reached, a failed fetch and a
\* failed store are answered with a server error that carries the message of
\* the exception.
C16_ErrorClassification ==
    \A p \in PostIds :
        /\ UrlRejected(p) => ClientError(p)
        /\ ResolveAnsweredError(p)
           => ClientError(p) /\ post[p].resp.code = post[p].cobalt.code
        /\ (ResolveThrew(p) \/ FetchThrew(p) \/ StoreThrew(p)) => ServerError(p)

C16_Witness ==
    \E p \in PostIds : /\ ResolveAnsweredError(p)
                       /\ post[p].resp = ErrResp(400, "Download failed: code",
                                                 "error.api.fetch.fail")

\* A structured response: the record projection with status 200, or an error
\* message with status 400 or 500.
Structured(resp) ==
    \/ resp = OkResp
    \/ resp.status \in {400, 500} /\ resp.error # ""

\* C17: a submit request has no response while it runs and exactly one once
\* it has ended: the response is sent by the step that ends the request, it
\* is structured, and it never changes afterwards. This holds whichever step
\* fails (request.json, requestDownload, downloadFromUrl, compressVideo,
\* uploadFile, prisma.video.create): no exception leaves the handler.
C17_OneStructuredResponse ==
    [][\A p \in PostIds :
          /\ post[p].pc # "done" => post[p].resp = NoResp
          /\ post'[p].pc # "done" => post'[p].resp = NoResp
          /\ post'[p].pc = "done" => Structured(post'[p].resp)
          /\ post[p].pc = "done" => post'[p] = post[p]]_vars

C17_Witness ==
    \E p \in PostIds :
        /\ post[p].pc = "done"
        /\ post[p].calls = <<"resolve", "fetch", "probe", "compress", "upload", "persist">>
        /\ post[p].created = 0
        /\ post[p].resp = ErrResp(500, "Prisma error", "")

\* The step of delete request d that answers success.
DelSucceeds(d) == del[d].pc = "deletingRow" /\ del'[d].resp = OkResp

\* C18, as stated: when a delete request answers success, the row of its id
\* is no longer in the table and the object of the row's fileKey is no longer
\* in the bucket. It fails: a deleteFile that threw is only logged, and the
\* request answers success with the object still there (under Spec).
C18_SuccessRemovesRowAndBlob ==
    [][\A d \in DeleteIds :
          DelSucceeds(d)
          => /\ ~ \E v \in videos' : v.id = del[d].id
             /\ del[d].fileKey \notin {o.key : o \in blobs'}]_vars

\* C18, amended: when a delete request answers success, the row of its id is
\* no longer in the table. The object of the row's fileKey is out of the
\* bucket when deleteFile returns; when deleteFile threw, the object is left
\* in the bucket by the request, which answers success all the same.
C18_SuccessRemovesRow ==
    [][\A d \in DeleteIds :
          /\ DelSucceeds(d) => ~ \E v \in videos' : v.id = del[d].id
          /\ (del[d].pc = "deletingFile" /\ del'[d].blobDeleted = "yes")
             => del[d].fileKey \notin {o.key : o \in blobs'}
          /\ (DelSucceeds(d) /\ del[d].blobDeleted = "failed")
             => (del[d].fileKey \in LiveKeys => del[d].fileKey \in {o.key : o \in blobs'})]_vars

C18_Witness ==
    \E d \in DeleteIds, p \in PostIds :
        /\ del[d].pc = "done" /\ del[d].resp = OkResp
        /\ post[p].created = 1 /\ RowsOf(p) = {}
        /\ blobs = {}

\* C19: in a delete request deleteFile is called before prisma.video.delete,
\* and its failure does not end the request: whether it returned or threw,
\* the request goes on to prisma.video.delete, and after deleteFile threw the
\* request ends as it does otherwise: the row is removed and the answer is
\* success, unless prisma.video.delete itself throws.
C19_BlobRemovalBestEffort ==
    [][\A d \in DeleteIds :
          /\ (del[d].pc = "deletingFile" /\ del'[d] # del[d])
             => /\ del'[d].pc = "deletingRow"
                /\ del'[d].blobDeleted \in {"yes", "failed"}
                /\ videos' = videos
          /\ del'[d].pc = "deletingRow" => del'[d].blobDeleted # "none"
          /\ (del[d].pc = "deletingRow" /\ del[d].blobDeleted = "failed"
              /\ del'[d].pc = "done")
             => \/ /\ del'[d].resp = OkResp
                   /\ ~ \E v \in videos' : v.id = del[d].id
                \/ /\ del'[d].resp = ErrResp(500, "Failed to delete video", "")
                   /\ videos' = videos]_vars

C19_Witness ==
    \E d \in DeleteIds, p \in PostIds :
        /\ del[d].pc = "done" /\ del[d].resp = OkResp
        /\ post[p].created = 1 /\ RowsOf(p) = {}
        /\ \A q \in PostIds \ {p} : post[q].pc = "idle"
        /\ \A e \in DeleteIds \ {d} : del[e].pc = "idle"
        /\ blobs # {}

\* C20: a delete request whose row does not exist is answered 404, also when
\* the row was there at findUnique and another delete request of the same id
\* removed it before this one came to prisma.video.delete. In that case
\* prisma.video.delete throws and the catch answers 500: the statement fails
\* (under Spec).
C20_MissingRecordIsNotFound ==
    [][\A d \in DeleteIds :
          (/\ del[d].pc = "deletingRow" /\ del'[d].pc = "done"
           /\ ~ \E v \in videos : v.id = del[d].id)
          => del'[d].resp = ErrResp(404, "Video not found", "")]_vars

\* C21: the list holds the rows of the table, most recent first, and the
\* answer is 200 whatever signature fails: it has the rows in the same order,
\* each with the signed URL of its own fileKey, or with null, and it has null
\* only where the signature failed.
C21_ListOrderedAndNullOnSignFailure ==
    [][/\ (get.pc = "idle" /\ get'.pc = "signing")
          => /\ {get'.videos[i] : i \in 1..Len(get'.videos)} = videos
             /\ Len(get'.videos) = Cardinality(videos)
             /\ \A i \in 1..(Len(get'.videos) - 1) :
                   get'.videos[i].createdAt >= get'.videos[i + 1].createdAt
       /\ (get.pc = "signing" /\ get' # get)
          => /\ get'.pc = "done" /\ get'.resp.status = 200
             /\ Len(get'.resp.videos) = Len(get.videos)
             /\ \A i \in 1..Len(get.videos) :
                   /\ get'.resp.videos[i].video = get.videos[i]
                   /\ get'.resp.videos[i].downloadUrl
                         \in {NullUrl, SignedUrl(get.videos[i].fileKey)}]_vars

C21_Witness ==
    /\ get.pc = "done" /\ get.resp.status = 200
    /\ Len(get.resp.videos) = 2
    /\ get.resp.videos[1].video.createdAt > get.resp.videos[2].video.createdAt
    /\ get.resp.videos[1].downloadUrl = NullUrl
    /\ get.resp.videos[2].downloadUrl = SignedUrl(get.resp.videos[2].video.fileKey)

\* The request of the scenario: the YouTube URL, answered with a tunnel or
\* redirect whose filename is FnClip ("My_V-C.mp4" stands for
\* "My_Video-Clip.mp4"), ended with status 200.
ClipScenario(p) ==
    /\ Done(p) /\ post[p].url = UrlYouTube
    /\ post[p].cobalt.status \in {"tunnel", "redirect"}
    /\ post[p].cobalt.filename = FnClip

\* C24, as stated: the row of the scenario has the title in sentence case,
\* "My v c" for "My video clip". It fails: extractTitleFromFilename lowers no
\* character.
C24_TitleInSentenceCase ==
    \A p \in PostIds :
        ClipScenario(p)
        => \E v \in RowsOf(p) : /\ v.status = "COMPLETED"
                                /\ v.title = <<"M", "y", " ", "v", " ", "c">>

\* C24, amended: the title is the filename without its extension, each "_"
\* and "-" replaced by a space and the first character in upper case, the
\* others as they are: "My V C" for "My Video Clip".
C24_TitleKeepsCase ==
    \A p \in PostIds :
        ClipScenario(p)
        => /\ Cardinality(RowsOf(p)) = 1
           /\ \A v \in RowsOf(p) : /\ v.status = "COMPLETED"
                                   /\ v.platform = "YouTube"
                                   /\ v.title = <<"M", "y", " ", "V", " ", "C">>

C24_Witness ==
    \E p \in PostIds :
        /\ ClipScenario(p) /\ post[p].cobalt.status = "tunnel"
        /\ \E v \in RowsOf(p) : v.title = <<"M", "y", " ", "V", " ", "C">>

\* The calls of a request that meets no failure: with the encoder probe and
\* compressVideo, with the probe alone, or with neither.
StageOrders ==
    { <<"resolve", "fetch", "probe", "compress", "upload", "persist">>,
      <<"resolve", "fetch", "probe", "upload", "persist">>,
      <<"resolve", "fetch", "upload", "persist">> }
IsPrefix(s, t) == Len(s) <= Len(t) /\ SubSeq(t, 1, Len(s)) = s

\* C25: the calls a request has made are at every moment the beginning of
\* one of the three orders: resolve, fetch, (probe, (compress)), upload,
\* persist, each at most once. A step only adds calls at the end, and a
\* request that has ended, in failure or not, makes no further call.
C25_StagesInOrderOnce ==
    [][\A p \in PostIds :
          /\ \E o \in StageOrders : IsPrefix(post[p].calls, o)
          /\ \E o \in StageOrders : IsPrefix(post'[p].calls, o)
          /\ IsPrefix(post[p].calls, post'[p].calls)
          /\ post[p].pc = "done" => post'[p].calls = post[p].calls]_vars

C25_Witness ==
    \E p \in PostIds :
        /\ Failed(p)
        /\ post[p].calls = <<"resolve", "fetch", "probe", "compress", "upload">>

\* The request has called stage s.
Called(p, s) == \E i \in 1..Len(post[p].calls) : post[p].calls[i] = s

\* C26, as stated: compressVideo is called only in a request whose body has
\* compress true, with compression enabled and after a successful probe. It
\* fails: a body without compress is compressed as well.
C26_EncoderOnlyIfFlagTrue ==
    \A p \in PostIds :
        post[p].pc \in CompressPcs
        => /\ post[p].compress = "true"
           /\ COMPRESSION_ENABLED
           /\ post[p].calls = <<"resolve", "fetch", "probe", "compress">>

\* C26, amended: compressVideo is called only in a request whose body does
\* not have compress false (it has true, or no compress at all), with
\* compression enabled and after a successful probe. A request with compress
\* false, or with compression disabled, does not even probe; and a request
\* that comes to the upload without having called compressVideo uploads the
\* fetched bytes under the fetched content type, no temporary file written.
C26_EncoderOnlyIfNotDisabled ==
    \A p \in PostIds :
        /\ post[p].pc \in CompressPcs
           => /\ post[p].compress # "false"
              /\ COMPRESSION_ENABLED
              /\ post[p].calls = <<"resolve", "fetch", "probe", "compress">>
        /\ (post[p].pc \notin {"idle", "done"}
            /\ (post[p].compress = "false" \/ ~COMPRESSION_ENABLED))
           => ~Called(p, "probe") /\ ~Called(p, "compress")
        /\ (post[p].pc = "uploading" /\ ~Called(p, "compress"))
           => /\ post[p].buffer = post[p].fetched
              /\ post[p].contentType = post[p].fetchedType
              /\ post[p].cres = "none"
              /\ FilesOf(p) = {}

C26_Witness ==
    \E p \in PostIds : /\ post[p].pc = "c_run"
                       /\ post[p].compress = "absent"
                       /\ COMPRESSION_ENABLED

\* C27: for a picker answer with a video item, downloadFromUrl is called with
\* the url of the first item of type video: no item before it is a video,
\* whatever photo items are.
C27_PickerFetchesFirstVideo ==
    \A p \in PostIds :
        (post[p].pc = "fetching" /\ post[p].cobalt.status = "picker")
        => /\ post[p].branch = "picker"
           /\ \E i \in 1..Len(post[p].cobalt.picker) :
                /\ post[p].cobalt.picker[i].type = "video"
                /\ \A j \in 1..(i - 1) : post[p].cobalt.picker[j].type # "video"
                /\ post[p].mediaUrl = post[p].cobalt.picker[i].url

C27_Witness ==
    \E p \in PostIds :
        /\ post[p].pc = "fetching"
        /\ post[p].cobalt.status = "picker"
        /\ post[p].cobalt.picker[1].type = "photo"
        /\ post[p].mediaUrl = "u2"

\* C28: an upload leaves the object of every existing row as it is: the
\* object stored under the row's fileKey before the upload is stored under it
\* after. Two requests can draw the same key (C14), uploadFile is a PutObject
\* that replaces, and the unique index only stops the second row, after the
\* upload: the statement fails (under Spec).
C28_UploadKeepsRecordedObjects ==
    [][\A p \in PostIds :
          (post[p].pc = "uploading" /\ post'[p].pc = "persisting")
          => \A v \in videos : \A o \in blobs :
                o.key = v.fileKey => o \in blobs']_vars

\* C29: the row a request creates describes the object the request uploaded:
\* the object stored under the row's fileKey has fileSize bytes and the row's
\* mimeType as its content type, in the picker and in the direct branch,
\* whether compressVideo returned, threw or was not called (Pipeline runs one
\* request: its object is the one it uploaded).
C29_RecordDescribesUpload ==
    /\ \A v \in videos :
          \E o \in blobs : /\ o.key = v.fileKey
                           /\ v.fileSize = Len(o.body)
                           /\ v.mimeType = o.contentType
    /\ \A p \in PostIds :
          post[p].pc = "persisting"
          => [key |-> post[p].fileKey, body |-> post[p].buffer,
              contentType |-> post[p].contentType] \in blobs

C29_Witness ==
    \E p \in PostIds :
        /\ Done(p) /\ post[p].cobalt.status = "picker"
        /\ Called(p, "compress")
        /\ \E v \in RowsOf(p), o \in blobs :
              /\ o.key = v.fileKey /\ o.body \in EncodedBodies
              /\ v.fileSize = 2 /\ v.mimeType = "video/mp4"

\* C30: in the direct branch the row's fileName and the extension of its
\* fileKey are ".mp4" only when its mimeType is video/mp4; a row of another
\* mimeType (compressVideo not called, or thrown, on an input that is not
\* mp4) keeps the filename of the answer. The handler renames to ".mp4"
\* whatever happened to the bytes: the statement fails.
C30_Mp4NameOnlyForMp4Bytes ==
    \A p \in PostIds :
        (Done(p) /\ post[p].cobalt.status \in {"tunnel", "redirect"})
        => \A v \in RowsOf(p) :
              /\ (EndsWith(v.fileName, ExtMp4) \/ v.fileKey.ext = <<"m", "p", "4">>)
                 => v.mimeType = "video/mp4"
              /\ v.mimeType # "video/mp4" => v.fileName = post[p].cobalt.filename

\* The items of the queue in status downloading, and the invocations of
\* processQueue that wait for a fetch.
Downloading == {i \in 1..Len(queue) : queue[i].status = "downloading"}
InFlight == {r \in RunIds : runs[r].pc = "fetching"}

\* C22: at most one item of the queue is in status downloading. The id of an
\* item is a Math.random() string and downloadItem sets the status of every
\* item that has the id of its item: two items that drew the same id are set
\* to downloading together, and the statement fails (under Client).
C22_AtMostOneDownloading == Cardinality(Downloading) <= 1

\* What does hold of processQueue: no two invocations wait for a fetch at
\* the same time, and while one does, isProcessing is set, in the state and
\* in the render.
C22_AtMostOneInFlight ==
    /\ Cardinality(InFlight) <= 1
    /\ InFlight # {} => isProcessing /\ render.isProcessing

\* C23: no two items of the queue have the same url, after any sequence of
\* addToQueue, paste and removeFromQueue (and of processQueue runs, whose
\* updates the closures of the handlers may not have seen yet). The url of
\* an item is the string as it was added: addToQueue compares and stores the
\* input untrimmed.
C23_NoDuplicateUrl ==
    \A i, j \in 1..Len(queue) : i # j => queue[i].url # queue[j].url

C23_Witness ==
    /\ Len(queue) = 3
    /\ UrlsOf(queue) = {UrlA, UrlB, UrlA \o Blank}
    /\ render.queue # queue
    /\ pasteQueue # render.queue

====
